---- MODULE Spec2Model ----
(***************************************************************************)
(* Model of seekube_telegram_watcher.py: a single process that crawls a    *)
(* paginated job listing with a browser, notifies a Telegram chat about    *)
(* postings that are not in the sqlite ledger yet, and records a posting   *)
(* in the ledger once its notification was delivered.                      *)
(*                                                                         *)
(* The site, the Telegram API and the clock are the environment: every     *)
(* navigation returns an arbitrary page (or times out), every send gets an *)
(* arbitrary response.  The ledger rows carry the instant of their insert; *)
(* no step of the crawl reads it, so the clock advances in the            *)
(* specification of the ledger (LedgerSpec) only.                          *)
(*                                                                         *)
(* Spec, FairSpec and LiveSpec are the unattended process under one        *)
(* working configuration; StartSpec adds login mode and takes every        *)
(* browser, seed and session-file configuration; HelperSpec calls          *)
(* send_telegram, paginate_url and the href normalisation on their own;    *)
(* TwoSpec runs the inner loop as two processes on one ledger.             *)
(***************************************************************************)
EXTENDS Integers, Sequences, FiniteSets, TLC

\* ---------------------------------------------------------------- bounds
\* distinct job numbers the site can list
MaxJob == 2
\* job anchors on one rendered page
MaxAnchors == 2
\* last instant of the wall clock
MaxClock == 3
\* largest configured MAX_PAGES
MaxPagesCap == 2

\* query parameters of the configured SEEKUBE_URL
MaxParams == 2

\* ------------------------------------------------------ program constants
\* page_text[:4000] in looks_like_login_or_challenge
TEXT_LIMIT == 4000

\* ------------------------------------------------------------ value sets
JobNums == 1..MaxJob
Hosts == {"app.seekube.com"}
NoHost == ""
Texts == {"", "T1"}
Responses == {"200", "429", "exception"}
MaxPagesValues == (-1)..MaxPagesCap

\* BRAVE_PATH: unset, naming no file, naming a file that does not launch,
\* naming the Brave executable.
BravePaths == {"", "missing", "invalid", "found"}

\* TELEGRAM_BOT_TOKEN and TELEGRAM_CHAT_ID: empty or set.
Secrets == {"", "set"}

\* STORAGE_STATE_B64: empty, base64 of a storage state, not base64.
Seeds == {"", "valid", "invalid"}

\* The file STORAGE_STATE: absent, there before the first process of the
\* model, written from the seed, written by the interactive login.
SessionFiles == {"absent", "old", "seed", "login"}

\* The Orchestrator processes of a deployment with two instances.
Instances == {1, 2}

\* An anchor of the rendered page: a relative href has no host.
Anchors == [host : Hosts \cup {NoHost}, n : JobNums, text : Texts]

RECURSIVE SeqsUpTo(_, _)
SeqsUpTo(S, k) ==
    IF k = 0 THEN {<<>>}
    ELSE LET shorter == SeqsUpTo(S, k - 1)
         IN  shorter \cup {Append(s, x) : s \in {t \in shorter : Len(t) = k - 1}, x \in S}

\* The documents of the crawl: the job anchors of one page are either all
\* with a text of their own or all without.
Documents ==
    {as \in SeqsUpTo(Anchors, MaxAnchors) :
        \A i, j \in 1..Len(as) : as[i].text = as[j].text}

\* What a navigation can return: the final URL (its host, whether it holds
\* a login marker), the content (where its first marker ends, 0 for none)
\* and the job anchors of the document.
Pages ==
    {p \in [host : Hosts, url_marker : BOOLEAN,
            marker_end : {0, TEXT_LIMIT},
            anchors : Documents] :
        p.url_marker => p.marker_end = 0}

NoPage == [url_marker |-> FALSE, marker_end |-> 0]

\* ----------------------------------------------------------------- state
VARIABLES
    RUN_FOREVER,   \* configuration, fixed for the life of the model
    MAX_PAGES,     \* configuration, fixed for the life of the model
    USE_BRAVE,     \* configuration
    BRAVE_PATH,    \* configuration, with what os.path.exists and launch find there
    TELEGRAM_BOT_TOKEN,  \* configuration
    TELEGRAM_CHAT_ID,    \* configuration
    STORAGE_STATE_B64,   \* configuration
    session,       \* the file STORAGE_STATE
    headless,      \* headless argument of the last chromium.launch
    probe,         \* last call of a helper made on its own, with its result
    inst,          \* per instance of a two-instance deployment: its place in the inner loop
    pc,            \* position of the process
    ledger,        \* rows of table seen(id, first_seen_utc)
    clock,         \* datetime.now
    browser_open,  \* browser and context of check_once are open
    pnum,          \* loop variable of check_once
    navs,          \* page.goto calls of the current run
    loaded,        \* final URL and content markers of the page the last goto loaded
    skipped,       \* anchors of the page the login heuristic stopped the run on
    jobs,          \* extract_jobs_from_page(page)
    idx,           \* position in jobs[::-1] of the next job of the inner loop
    exc,           \* exception in flight
    diag,          \* last diagnostic line printed
    tgLog,         \* send_telegram calls made for the current page, in order
    okCount,       \* per id: successful sends so far, saturating at 2
    markCalls,     \* per id: mark_seen calls so far, saturating at 2
    failedBefore   \* some send for the Target posting returned False

vars == <<RUN_FOREVER, MAX_PAGES, USE_BRAVE, BRAVE_PATH, TELEGRAM_BOT_TOKEN,
          TELEGRAM_CHAT_ID, STORAGE_STATE_B64, session, headless, probe, inst,
          pc, ledger, clock, browser_open, pnum, navs,
          loaded, skipped, jobs, idx, exc, diag, tgLog, okCount, markCalls, failedBefore>>

config == <<RUN_FOREVER, MAX_PAGES, USE_BRAVE, BRAVE_PATH, TELEGRAM_BOT_TOKEN,
            TELEGRAM_CHAT_ID, STORAGE_STATE_B64>>

\* State no step of check_once writes.
outside == <<session, probe, inst>>
runVars == <<pnum, navs, loaded, skipped, jobs, idx, tgLog>>
history == <<okCount, markCalls, failedBefore>>

\* Everything check_once and __main__ keep between their steps.
processState == <<pc, ledger, clock, browser_open, headless, runVars, exc, diag, history>>

JobIds == [host : Hosts, n : JobNums]

\* The posting the liveness properties follow.
Target == [host |-> "app.seekube.com", n |-> 1]

\* ---------------------------------------------------------- session seed
restore_storage_state_from_b64_overwrites(seed, file) ==
    IF seed = "valid"
    THEN [file |-> "seed", raised |-> FALSE]
    ELSE [file |-> file, raised |-> FALSE]

\* The file after the call and whether an exception leaves the call: a
\* seed that does not decode raises inside the try block, before
\* write_bytes is called.
restore_storage_state_from_b64(seed, file) ==
    IF seed # "" /\ file = "absent"
    THEN IF seed = "valid"
         THEN [file |-> "seed", raised |-> FALSE]
         ELSE [file |-> file, raised |-> FALSE]
    ELSE [file |-> file, raised |-> FALSE]

\* ---------------------------------------------------------- dedup ledger
seen_never(conn, item_id) == FALSE

seen(conn, item_id) == \E r \in conn : r.id = item_id

\* INSERT OR REPLACE
mark_seen_replace(conn, item_id, now) ==
    {r \in conn : r.id # item_id} \cup {[id |-> item_id, first_seen_utc |-> now]}

\* INSERT OR IGNORE under PRIMARY KEY(id)
mark_seen(conn, item_id, now) ==
    IF \E r \in conn : r.id = item_id
    THEN conn
    ELSE conn \cup {[id |-> item_id, first_seen_utc |-> now]}

LedgerIds == {r.id : r \in ledger}

\* --------------------------------------------------------------- notifier
send_telegram_postsUnconfigured(token, chat_id, resp) ==
    IF resp = "200"
    THEN [ret |-> TRUE, raised |-> FALSE, posted |-> TRUE]
    ELSE [ret |-> FALSE, raised |-> FALSE, posted |-> TRUE]

\* What a call returns, whether an exception leaves it, and whether it got
\* as far as requests.post; resp is what requests.post does when called.
send_telegram(token, chat_id, resp) ==
    IF token = "" \/ chat_id = ""
    THEN [ret |-> FALSE, raised |-> FALSE, posted |-> FALSE]
    ELSE IF resp = "exception"
         THEN [ret |-> FALSE, raised |-> FALSE, posted |-> TRUE]
         ELSE IF resp # "200"
              THEN [ret |-> FALSE, raised |-> FALSE, posted |-> TRUE]
              ELSE [ret |-> TRUE, raised |-> FALSE, posted |-> TRUE]

\* -------------------------------------------------------------- extractor
RECURSIVE Collect(_, _, _)
\* The loop over anchors followed by the dict of "dedupe by href": a key
\* keeps the position of its first anchor and the value of its last one.
Collect(anchors, base, uniq) ==
    IF anchors = <<>> THEN uniq
    ELSE LET a == Head(anchors)
             title == IF a.text = "" THEN "Seekube job" ELSE a.text
             href == [host |-> IF a.host = NoHost THEN base ELSE a.host, n |-> a.n]
             job == [id |-> href, title |-> title]
             at == {i \in 1..Len(uniq) : uniq[i].id = href}
             next == IF at = {} THEN Append(uniq, job)
                     ELSE [uniq EXCEPT ![CHOOSE i \in at : TRUE] = job]
         IN  Collect(Tail(anchors), base, next)

extract_jobs_from_page(pg) == Collect(pg.anchors, pg.host, <<>>)

looks_like_login_or_challenge_urlOnly(pg) == pg.url_marker

looks_like_login_or_challenge(pg) ==
    pg.url_marker \/ (pg.marker_end > 0 /\ pg.marker_end <= TEXT_LIMIT)

Max0(n) == IF n > 0 THEN n ELSE 0

\* ------------------------------------------------------- href of an anchor
\* The text of a URL or href is the sequence of its pieces, "/" being a
\* piece of its own except inside "jobdating/jobs/".
\* The numbers, each a piece.
DigitToks == {ToString(d) : d \in 0..9}
Schemes == {"https:", "http:"}
HostNames == {"app.seekube.com", "app.example.com"}

\* page.url after the goto: the site may have redirected to another host.
PageUrls == [scheme : Schemes, host : HostNames]

RenderPageUrl(u) == <<u.scheme, "/", "/", u.host, "/", "x">>

\* The href attribute of a job anchor: absolute, relative to the root of
\* the site ("/jobdating/jobs/42"), or relative to the document
\* ("../jobdating/jobs/42").
Hrefs == [kind : {"absolute", "root", "document"}, scheme : Schemes, host : HostNames,
          n : JobNums]

RenderHref(h) ==
    LET path == <<"/", "jobdating/jobs/", ToString(h.n)>>
    IN  IF h.kind = "absolute" THEN <<h.scheme, "/", "/", h.host>> \o path
        ELSE IF h.kind = "root" THEN path
        ELSE <<"..">> \o path

\* JOB_HREF_RE.search(href)
JobHrefMatch(href) ==
    \E i \in 1..(Len(href) - 2) :
        href[i] = "/" /\ href[i + 1] = "jobdating/jobs/" /\ href[i + 2] \in DigitToks

\* Position of the k-th "/" of s; 0 for k = 0, past the end when s has
\* fewer.
SlashAt(s, k) ==
    LET at == {i \in 1..Len(s) : s[i] = "/"}
    IN  IF k = 0 THEN 0
        ELSE IF Cardinality(at) < k THEN Len(s) + 1
        ELSE CHOOSE i \in at : Cardinality({j \in at : j <= i}) = k

\* s.split("/", 3)[k] for k in 0..2
Segment(s, k) == SubSeq(s, SlashAt(s, k) + 1, SlashAt(s, k + 1) - 1)

\* The id extract_jobs_from_page gives the job of an anchor whose href
\* passed the filter: "if href.startswith('/')" and its body.
NormalizeHref(href, page_url) ==
    IF href[1] = "/"
    THEN Segment(page_url, 0) \o <<"/", "/">> \o Segment(page_url, 2) \o href
    ELSE href

\* ------------------------------------------------------------- pagination
\* A URL is the sequence of its pieces: the part up to the query, "?", "&",
\* the letters of a key, "page=", a number, a value that is no number.
UrlKeys == {"page", "perpage", "x"}
UrlVals == {"9", "a"}
\* A query parameter; the page-number parameter carries a number.
Params == {p \in [key : UrlKeys, val : UrlVals] : p.key = "page" => p.val \in DigitToks}

\* The values of SEEKUBE_URL: a path and query parameters.
Urls == [query : SeqsUpTo(Params, MaxParams)]

\* range(1, MAX_PAGES + 1)
PageNums == 1..MaxPagesCap

KeyToks(k) ==
    IF k = "page" THEN <<"page=">>
    ELSE IF k = "perpage" THEN <<"per", "page=">>
    ELSE <<"x=">>

RECURSIVE RenderQuery(_, _)
RenderQuery(q, first) ==
    IF q = <<>> THEN <<>>
    ELSE <<IF first THEN "?" ELSE "&">> \o KeyToks(Head(q).key) \o <<Head(q).val>>
            \o RenderQuery(Tail(q), FALSE)

\* The text of a URL.
Render(u) ==
    <<"https://app.seekube.com/jobs">> \o RenderQuery(u.query, TRUE)

\* tok in s
Contains(s, tok) == \E i \in 1..Len(s) : s[i] = tok

RECURSIVE DigitRun(_, _)
\* Length of the match of \d* at position i of s.
DigitRun(s, i) ==
    IF i <= Len(s) /\ s[i] \in DigitToks THEN 1 + DigitRun(s, i + 1) ELSE 0

RECURSIVE SubPage(_, _, _)
\* re.sub(r"([?&])page=\d+", rf"\1page={page_num}", s), from position i on.
SubPage(s, i, page_num) ==
    IF i > Len(s) THEN <<>>
    ELSE IF /\ s[i] \in {"?", "&"}
            /\ i + 1 <= Len(s)
            /\ s[i + 1] = "page="
            /\ DigitRun(s, i + 2) >= 1
         THEN <<s[i], "page=", ToString(page_num)>>
                 \o SubPage(s, i + 2 + DigitRun(s, i + 2), page_num)
         ELSE <<s[i]>> \o SubPage(s, i + 1, page_num)

paginate_url(url, page_num) ==
    IF Contains(url, "page=")
    THEN SubPage(url, 1, page_num)
    ELSE url \o <<IF Contains(url, "?") THEN "&" ELSE "?", "page=", ToString(page_num)>>

\* ---------------------------------------------------------------- browser
\* The exception make_browser ends with ("none" when it returns a browser)
\* and the headless argument of the launch.
make_browser(headed) ==
    IF USE_BRAVE
    THEN IF BRAVE_PATH \in {"", "missing"}
         THEN [raised |-> "RuntimeError", headless |-> ~headed]
         ELSE IF BRAVE_PATH = "invalid"
              THEN [raised |-> "Error", headless |-> ~headed]
              ELSE [raised |-> "none", headless |-> ~headed]
    ELSE [raised |-> "none", headless |-> ~headed]

\* No instance of the two-instance deployment is inside its inner loop.
IdleInst == [at |-> "idle", id |-> [host |-> "app.seekube.com", n |-> 1], done |-> {}]

\* ------------------------------------------------------------------ Init
\* The state of a process that has not started yet, on an empty ledger.
InitRun ==
    /\ headless = TRUE
    /\ probe = [fn |-> "none"]
    /\ inst = [p \in Instances |-> IdleInst]
    /\ pc = "boot"
    /\ ledger = {}
    /\ clock = 0
    /\ browser_open = FALSE
    /\ pnum = 0
    /\ navs = 0
    /\ loaded = NoPage
    /\ skipped = 0
    /\ jobs = <<>>
    /\ idx = 0
    /\ exc = "none"
    /\ diag = "none"
    /\ tgLog = <<>>
    /\ okCount = [i \in JobIds |-> 0]
    /\ markCalls = [i \in JobIds |-> 0]
    /\ failedBefore = FALSE

\* The unattended deployment: a session file saved by an earlier login, no
\* seed, Telegram configured; Brave, when asked for, is not installed.
Init ==
    /\ RUN_FOREVER \in BOOLEAN
    /\ MAX_PAGES \in MaxPagesValues
    /\ USE_BRAVE \in BOOLEAN
    /\ BRAVE_PATH = "missing"
    /\ TELEGRAM_BOT_TOKEN = "set"
    /\ TELEGRAM_CHAT_ID = "set"
    /\ STORAGE_STATE_B64 = ""
    /\ session = "login"
    /\ InitRun

\* --------------------------------------------------------------- actions
\* __main__ up to the call of check_once.  The ledger file outlives the
\* process, so a process that ended can be started again on the same file.
Main ==
    /\ pc \in {"boot", "exited", "crashed"}
    /\ LET r == restore_storage_state_from_b64(STORAGE_STATE_B64, session)
       IN  /\ session' = r.file
           /\ pc' = IF r.raised THEN "crashed" ELSE "check_once"
           /\ exc' = IF r.raised THEN "Exception" ELSE "none"
    /\ UNCHANGED <<config, probe, inst, ledger, clock, browser_open, headless, runVars, diag, history>>

\* check_once up to the for loop: browser, context and page are opened.
\* make_browser raises: the exception leaves check_once before the try
\* block, to the caller in __main__.
MakeBrowserRaises ==
    /\ pc = "check_once"
    /\ make_browser(FALSE).raised # "none"
    /\ IF RUN_FOREVER
       THEN /\ diag' = "loop_error"
            /\ exc' = "none"
            /\ pc' = "sleep"
       ELSE /\ exc' = make_browser(FALSE).raised
            /\ pc' = "crashed"
            /\ UNCHANGED diag
    /\ UNCHANGED <<config, outside, ledger, clock, browser_open, headless, runVars, history>>

OpenBrowser ==
    /\ pc = "check_once"
    /\ make_browser(FALSE).raised = "none"
    /\ headless' = make_browser(FALSE).headless
    /\ browser_open' = TRUE
    /\ pnum' = (IF 1 <= MAX_PAGES THEN 1 ELSE 0)
    /\ navs' = 0
    /\ loaded' = NoPage
    /\ skipped' = 0
    /\ jobs' = <<>>
    /\ idx' = 0
    /\ tgLog' = <<>>
    /\ pc' = IF 1 <= MAX_PAGES THEN "goto" ELSE "finally"
    /\ UNCHANGED <<config, outside, ledger, clock, exc, diag, history>>

AfterPage_ignoresEmpty(js, n) ==
    IF n + 1 <= MAX_PAGES THEN "goto" ELSE "finally"

AfterPage_offByOne(js, n) ==
    IF Len(js) = 0 THEN "finally"
    ELSE IF n <= MAX_PAGES THEN "goto" ELSE "finally"

\* Where the for loop goes once the inner loop over jobs[::-1] is over:
\* "if len(jobs) == 0: break", else the next value of range(1, MAX_PAGES + 1).
AfterPage(js, n) ==
    IF Len(js) = 0 THEN "finally"
    ELSE IF n + 1 <= MAX_PAGES THEN "goto" ELSE "finally"

\* page.goto raises TimeoutError.
GotoTimeout ==
    /\ pc = "goto"
    /\ navs' = navs + 1
    /\ exc' = "TimeoutError"
    /\ pc' = "finally"
    /\ UNCHANGED <<config, outside, ledger, clock, browser_open, headless, pnum, loaded, skipped, jobs, idx,
                   diag, tgLog, history>>

\* page.goto loads pg; the login heuristic; extraction.
Goto(pg) ==
    /\ pc = "goto"
    /\ navs' = navs + 1
    /\ loaded' = [url_marker |-> pg.url_marker, marker_end |-> pg.marker_end]
    /\ tgLog' = <<>>
    /\ IF looks_like_login_or_challenge(pg)
       THEN /\ diag' = "login"
            /\ skipped' = Len(pg.anchors)
            /\ pc' = "finally"
            /\ UNCHANGED <<jobs, idx, pnum>>
       ELSE LET js == extract_jobs_from_page(pg)
            IN  /\ jobs' = js
                /\ idx' = 1
                /\ diag' = "scrape"
                /\ skipped' = 0
                /\ pc' = "notify"
                /\ pnum' = pnum
    /\ UNCHANGED <<config, outside, ledger, clock, browser_open, headless, exc, history>>

Reversed_identity(js) == js

\* jobs[::-1]
Reversed(js) == [i \in 1..Len(js) |-> js[Len(js) + 1 - i]]

Notify_stopsAtFailure(resp) ==
    /\ pc = "notify"
    /\ idx <= Len(jobs)
    /\ LET job == Reversed(jobs)[idx]
           ok == send_telegram(TELEGRAM_BOT_TOKEN, TELEGRAM_CHAT_ID, resp).ret
           sent == ~seen(ledger, job.id)
       IN  /\ IF ~sent
              THEN UNCHANGED <<ledger, tgLog, history>>
              ELSE /\ tgLog' = Append(tgLog, [id |-> job.id, ok |-> ok])
                   /\ IF ok
                      THEN /\ ledger' = mark_seen(ledger, job.id, clock)
                           /\ markCalls' = [markCalls EXCEPT ![job.id] = IF @ < 2 THEN @ + 1 ELSE @]
                           /\ okCount' = [okCount EXCEPT ![job.id] = IF @ < 2 THEN @ + 1 ELSE @]
                           /\ UNCHANGED failedBefore
                      ELSE /\ failedBefore' = (failedBefore \/ job.id = Target)
                           /\ UNCHANGED <<ledger, okCount, markCalls>>
           /\ idx' = IF sent /\ ~ok THEN Len(jobs) + 1 ELSE idx + 1
    /\ UNCHANGED <<config, outside, pc, clock, browser_open, headless, pnum, navs, loaded, skipped, jobs, exc, diag>>

Notify_recordsUndelivered(resp) ==
    /\ pc = "notify"
    /\ idx <= Len(jobs)
    /\ LET job == Reversed(jobs)[idx]
           ok == send_telegram(TELEGRAM_BOT_TOKEN, TELEGRAM_CHAT_ID, resp).ret
       IN  IF seen(ledger, job.id)
           THEN UNCHANGED <<ledger, tgLog, history>>
           ELSE /\ tgLog' = Append(tgLog, [id |-> job.id, ok |-> ok])
                /\ ledger' = mark_seen(ledger, job.id, clock)
                /\ markCalls' = [markCalls EXCEPT ![job.id] = IF @ < 2 THEN @ + 1 ELSE @]
                /\ IF ok
                   THEN /\ okCount' = [okCount EXCEPT ![job.id] = IF @ < 2 THEN @ + 1 ELSE @]
                        /\ UNCHANGED failedBefore
                   ELSE /\ failedBefore' = (failedBefore \/ job.id = Target)
                        /\ UNCHANGED okCount
    /\ idx' = idx + 1
    /\ UNCHANGED <<config, outside, pc, clock, browser_open, headless, pnum, navs, loaded, skipped, jobs, exc, diag>>

Notify_raisesOnFailure(resp) ==
    /\ pc = "notify"
    /\ idx <= Len(jobs)
    /\ LET job == Reversed(jobs)[idx]
           ok == send_telegram(TELEGRAM_BOT_TOKEN, TELEGRAM_CHAT_ID, resp).ret
           sent == ~seen(ledger, job.id)
       IN  /\ IF ~sent
              THEN UNCHANGED <<ledger, tgLog, history>>
              ELSE /\ tgLog' = Append(tgLog, [id |-> job.id, ok |-> ok])
                   /\ IF ok
                      THEN /\ ledger' = mark_seen(ledger, job.id, clock)
                           /\ markCalls' = [markCalls EXCEPT ![job.id] = IF @ < 2 THEN @ + 1 ELSE @]
                           /\ okCount' = [okCount EXCEPT ![job.id] = IF @ < 2 THEN @ + 1 ELSE @]
                           /\ UNCHANGED failedBefore
                      ELSE /\ failedBefore' = (failedBefore \/ job.id = Target)
                           /\ UNCHANGED <<ledger, okCount, markCalls>>
           /\ idx' = idx + 1
           /\ pc' = IF sent /\ ~ok THEN "finally" ELSE pc
           /\ exc' = IF sent /\ ~ok THEN "RuntimeError" ELSE exc
    /\ UNCHANGED <<config, outside, clock, browser_open, headless, pnum, navs, loaded, skipped, jobs, diag>>

\* One iteration of "for job in jobs[::-1]": idx is the position in the
\* reversed list of the job this iteration handles.
Notify(resp) ==
    /\ pc = "notify"
    /\ idx <= Len(jobs)
    /\ LET job == Reversed(jobs)[idx]
           ok == send_telegram(TELEGRAM_BOT_TOKEN, TELEGRAM_CHAT_ID, resp).ret
       IN  IF seen(ledger, job.id)
           THEN UNCHANGED <<ledger, tgLog, history>>
           ELSE /\ tgLog' = Append(tgLog, [id |-> job.id, ok |-> ok])
                /\ IF ok
                   THEN /\ ledger' = mark_seen(ledger, job.id, clock)
                        /\ markCalls' = [markCalls EXCEPT ![job.id] = IF @ < 2 THEN @ + 1 ELSE @]
                        /\ okCount' = [okCount EXCEPT ![job.id] = IF @ < 2 THEN @ + 1 ELSE @]
                        /\ UNCHANGED failedBefore
                   ELSE /\ failedBefore' = (failedBefore \/ job.id = Target)
                        /\ UNCHANGED <<ledger, okCount, markCalls>>
    /\ idx' = idx + 1
    /\ UNCHANGED <<config, outside, pc, clock, browser_open, headless, pnum, navs, loaded, skipped, jobs, exc, diag>>

\* The inner loop is over: all_new += newly_sent, the test for an empty
\* page, and the next turn of the for loop.
EndPage ==
    /\ pc = "notify"
    /\ idx > Len(jobs)
    /\ tgLog' = <<>>
    /\ pc' = AfterPage(jobs, pnum)
    /\ pnum' = IF AfterPage(jobs, pnum) = "goto" THEN pnum + 1 ELSE pnum
    /\ UNCHANGED <<config, outside, ledger, clock, browser_open, headless, navs, loaded, skipped, jobs, idx,
                   exc, diag, history>>

Finally_leaksOnError ==
    /\ pc = "finally"
    /\ browser_open' = (exc # "none")
    /\ IF exc # "none"
       THEN IF RUN_FOREVER
            THEN /\ diag' = "loop_error"
                 /\ exc' = "none"
                 /\ pc' = "sleep"
            ELSE /\ pc' = "crashed"
                 /\ UNCHANGED <<exc, diag>>
       ELSE /\ diag' = "done"
            /\ pc' = IF RUN_FOREVER THEN "sleep" ELSE "exited"
            /\ UNCHANGED exc
    /\ UNCHANGED <<config, outside, ledger, clock, headless, runVars, history>>

Finally_rollsBack ==
    /\ pc = "finally"
    /\ browser_open' = FALSE
    /\ IF exc # "none"
       THEN /\ ledger' = {}
            /\ IF RUN_FOREVER
               THEN /\ diag' = "loop_error"
                    /\ exc' = "none"
                    /\ pc' = "sleep"
               ELSE /\ pc' = "crashed"
                    /\ UNCHANGED <<exc, diag>>
       ELSE /\ diag' = "done"
            /\ pc' = IF RUN_FOREVER THEN "sleep" ELSE "exited"
            /\ UNCHANGED <<exc, ledger>>
    /\ UNCHANGED <<config, outside, clock, headless, runVars, history>>

Finally_loopDies ==
    /\ pc = "finally"
    /\ browser_open' = FALSE
    /\ IF exc # "none"
       THEN /\ pc' = "crashed"
            /\ UNCHANGED <<exc, diag>>
       ELSE /\ diag' = "done"
            /\ pc' = IF RUN_FOREVER THEN "sleep" ELSE "exited"
            /\ UNCHANGED exc
    /\ UNCHANGED <<config, outside, ledger, clock, headless, runVars, history>>

\* The finally block, then what the caller in __main__ does with the
\* outcome of check_once.
Finally ==
    /\ pc = "finally"
    /\ browser_open' = FALSE
    /\ IF exc # "none"
       THEN IF RUN_FOREVER
            THEN /\ diag' = "loop_error"
                 /\ exc' = "none"
                 /\ pc' = "sleep"
            ELSE /\ pc' = "crashed"
                 /\ UNCHANGED <<exc, diag>>
       ELSE /\ diag' = "done"
            /\ pc' = IF RUN_FOREVER THEN "sleep" ELSE "exited"
            /\ UNCHANGED exc
    /\ UNCHANGED <<config, outside, ledger, clock, headless, runVars, history>>

\* time.sleep(RUN_EVERY_SECONDS), then the next iteration of while True.
Sleep ==
    /\ pc = "sleep"
    /\ pc' = "check_once"
    /\ UNCHANGED <<config, outside, ledger, clock, browser_open, headless, runVars, exc, diag, history>>

Next ==
    \/ Main
    \/ MakeBrowserRaises
    \/ OpenBrowser
    \/ GotoTimeout
    \/ \E pg \in Pages : Goto(pg)
    \/ \E resp \in Responses : Notify(resp)
    \/ EndPage
    \/ Finally
    \/ Sleep

Spec == Init /\ [][Next]_vars

\* The send for posting id is due and the Telegram API answers 200.
SendOk(id) ==
    /\ pc = "notify"
    /\ idx <= Len(jobs)
    /\ Reversed(jobs)[idx].id = id
    /\ ~seen(ledger, id)
    /\ Notify("200")

\* A started process keeps taking its steps: every call in check_once
\* returns or raises within its timeout (goto 90 s, requests.post 30 s) and
\* time.sleep returns.  Starting a process is up to the operator.
FairSpec ==
    /\ Init /\ [][Next]_vars
    /\ WF_vars(MakeBrowserRaises)
    /\ WF_vars(OpenBrowser)
    /\ WF_vars(GotoTimeout \/ \E pg \in Pages : Goto(pg))
    /\ WF_vars(\E resp \in Responses : Notify(resp))
    /\ WF_vars(EndPage)
    /\ WF_vars(Finally)
    /\ WF_vars(Sleep)

\* FairSpec with a Telegram API that does not refuse the Target for ever.
LiveSpec == FairSpec /\ SF_vars(SendOk(Target))

\* ------------------------------------------------------------ login mode
LoginOpen_savesAtOnce(gotoOk) ==
    /\ pc \in {"boot", "exited", "crashed"}
    /\ session' = "login"
    /\ browser_open' = TRUE
    /\ headless' = FALSE
    /\ exc' = "none"
    /\ pc' = "login_wait"
    /\ UNCHANGED <<config, probe, inst, ledger, clock, runVars, diag, history>>

\* __main__ started with --login, up to the input() of
\* login_and_save_state: the seed, the headed browser, the page and its
\* goto.  An exception ends the process, and the browser with it.
LoginOpen(gotoOk) ==
    /\ pc \in {"boot", "exited", "crashed"}
    /\ LET r == restore_storage_state_from_b64(STORAGE_STATE_B64, session)
           b == make_browser(TRUE)
       IN  /\ session' = r.file
           /\ IF r.raised \/ b.raised # "none"
              THEN /\ pc' = "crashed"
                   /\ exc' = IF r.raised THEN "Exception" ELSE b.raised
                   /\ UNCHANGED <<browser_open, headless>>
              ELSE /\ headless' = b.headless
                   /\ IF gotoOk
                      THEN /\ browser_open' = TRUE
                           /\ exc' = "none"
                           /\ pc' = "login_wait"
                      ELSE /\ browser_open' = FALSE
                           /\ exc' = "TimeoutError"
                           /\ pc' = "crashed"
    /\ UNCHANGED <<config, probe, inst, ledger, clock, runVars, diag, history>>

\* input() returns a line: the storage state is saved, context and browser
\* are closed, SystemExit(0).
LoginConfirm ==
    /\ pc = "login_wait"
    /\ session' = "login"
    /\ browser_open' = FALSE
    /\ pc' = "exited"
    /\ UNCHANGED <<config, probe, inst, ledger, clock, headless, runVars, exc, diag, history>>

\* input() raises EOFError: the process ends without saving.
LoginInputFails ==
    /\ pc = "login_wait"
    /\ browser_open' = FALSE
    /\ exc' = "EOFError"
    /\ pc' = "crashed"
    /\ UNCHANGED <<config, outside, ledger, clock, headless, runVars, diag, history>>

\* Any deployment of one instance on one page of listings: any browser
\* configuration, any seed, with or without a session file.
StartInit ==
    /\ RUN_FOREVER \in BOOLEAN
    /\ MAX_PAGES = 1
    /\ USE_BRAVE \in BOOLEAN
    /\ BRAVE_PATH \in BravePaths
    /\ USE_BRAVE = FALSE => BRAVE_PATH = ""
    /\ TELEGRAM_BOT_TOKEN = "set"
    /\ TELEGRAM_CHAT_ID = "set"
    /\ STORAGE_STATE_B64 \in Seeds
    /\ session \in {"absent", "old"}
    /\ InitRun

\* Every process is started with or without --login.
StartNext ==
    \/ Next
    \/ \E gotoOk \in BOOLEAN : LoginOpen(gotoOk)
    \/ LoginConfirm
    \/ LoginInputFails

StartSpec == StartInit /\ [][StartNext]_vars

TypeOK ==
    /\ RUN_FOREVER \in BOOLEAN
    /\ MAX_PAGES \in MaxPagesValues
    /\ pc \in {"boot", "check_once", "goto", "notify", "finally", "sleep", "exited", "crashed",
              "login_wait"}
    /\ USE_BRAVE \in BOOLEAN
    /\ BRAVE_PATH \in BravePaths
    /\ TELEGRAM_BOT_TOKEN \in Secrets
    /\ TELEGRAM_CHAT_ID \in Secrets
    /\ STORAGE_STATE_B64 \in Seeds
    /\ session \in SessionFiles
    /\ headless \in BOOLEAN
    /\ browser_open \in BOOLEAN
    /\ clock \in 0..MaxClock
    /\ pnum \in 0..Max0(MAX_PAGES)
    /\ idx \in 0..(Len(jobs) + 1)
    /\ Cardinality(ledger) = Cardinality(LedgerIds)

\* ----------------------------------------------- the ledger on its own
\* mark_seen called with any id at any instant, on any table it can build.
Record(id) ==
    /\ ledger' = mark_seen(ledger, id, clock)
    /\ markCalls' = [markCalls EXCEPT ![id] = IF @ < 2 THEN @ + 1 ELSE @]
    /\ UNCHANGED <<config, outside, pc, clock, browser_open, headless, runVars, exc, diag, okCount, failedBefore>>

ClockTick ==
    /\ clock < MaxClock
    /\ clock' = clock + 1
    /\ UNCHANGED <<config, outside, pc, ledger, browser_open, headless, runVars, exc, diag, history>>

LedgerInit == Init /\ RUN_FOREVER = FALSE /\ MAX_PAGES = 1 /\ USE_BRAVE = FALSE

LedgerNext == ClockTick \/ \E id \in JobIds : Record(id)

LedgerSpec == LedgerInit /\ [][LedgerNext]_vars

\* ------------------------------------- two instances on the same ledger
\* The inner loop of check_once as two concurrent processes run it: the
\* SELECT of seen, the call of send_telegram and the INSERT of mark_seen
\* are separate steps, each atomic in sqlite.  The pages of an instance
\* list any postings, in any order.  inst[p].done holds the postings
\* instance p has delivered.
InstSeen(p, id) ==
    /\ inst[p].at = "idle"
    /\ inst' = [inst EXCEPT ![p].at = IF seen(ledger, id) THEN "idle" ELSE "checked",
                            ![p].id = IF seen(ledger, id) THEN IdleInst.id ELSE id]
    /\ UNCHANGED <<config, session, probe, processState>>

InstSend(p, resp) ==
    /\ inst[p].at = "checked"
    /\ LET ok == send_telegram(TELEGRAM_BOT_TOKEN, TELEGRAM_CHAT_ID, resp).ret
           id == inst[p].id
       IN  IF ok
           THEN /\ inst' = [inst EXCEPT ![p].at = "sent", ![p].done = @ \cup {id}]
                /\ okCount' = [okCount EXCEPT ![id] = IF @ < 2 THEN @ + 1 ELSE @]
           ELSE /\ inst' = [inst EXCEPT ![p].at = "idle", ![p].id = IdleInst.id]
                /\ UNCHANGED okCount
    /\ UNCHANGED <<config, session, probe, pc, ledger, clock, browser_open, headless, runVars,
                   exc, diag, markCalls, failedBefore>>

InstMarkSeen_lost(p) ==
    /\ inst[p].at = "sent"
    /\ inst' = [inst EXCEPT ![p].at = "idle", ![p].id = IdleInst.id]
    /\ UNCHANGED <<config, session, probe, processState>>

InstMarkSeen(p) ==
    /\ inst[p].at = "sent"
    /\ ledger' = mark_seen(ledger, inst[p].id, clock)
    /\ markCalls' = [markCalls EXCEPT ![inst[p].id] = IF @ < 2 THEN @ + 1 ELSE @]
    /\ inst' = [inst EXCEPT ![p].at = "idle", ![p].id = IdleInst.id]
    /\ UNCHANGED <<config, session, probe, pc, clock, browser_open, headless, runVars,
                   exc, diag, okCount, failedBefore>>

TwoInit == Init /\ RUN_FOREVER = TRUE /\ MAX_PAGES = 1 /\ USE_BRAVE = FALSE

TwoNext ==
    \/ \E p \in Instances, id \in JobIds : InstSeen(p, id)
    \/ \E p \in Instances, resp \in Responses : InstSend(p, resp)
    \/ \E p \in Instances : InstMarkSeen(p)

TwoSpec == TwoInit /\ [][TwoNext]_vars

\* ------------------------------------------------ the helpers on their own
\* send_telegram(text) under the configuration of the process, with any
\* behaviour of requests.post.
CallSendTelegram(resp) ==
    /\ probe' = [fn |-> "send_telegram", resp |-> resp,
                 out |-> send_telegram(TELEGRAM_BOT_TOKEN, TELEGRAM_CHAT_ID, resp)]
    /\ UNCHANGED <<config, session, inst, processState>>

\* paginate_url(SEEKUBE_URL, pnum) for any configured URL and any page
\* number of the for loop.
CallPaginateUrl(u, n) ==
    /\ probe' = [fn |-> "paginate_url", url |-> u, n |-> n,
                 out |-> paginate_url(Render(u), n)]
    /\ UNCHANGED <<config, session, inst, processState>>

\* The id extract_jobs_from_page computes for an anchor with href h on a
\* page loaded at u.
CallNormalizeHref(h, u) ==
    /\ JobHrefMatch(RenderHref(h))
    /\ probe' = [fn |-> "normalize_href", href |-> h, page |-> u,
                 out |-> NormalizeHref(RenderHref(h), RenderPageUrl(u))]
    /\ UNCHANGED <<config, session, inst, processState>>

\* Any Telegram configuration; the helpers read nothing else.
HelperInit ==
    /\ RUN_FOREVER = FALSE
    /\ MAX_PAGES = 1
    /\ USE_BRAVE = FALSE
    /\ BRAVE_PATH = ""
    /\ TELEGRAM_BOT_TOKEN \in Secrets
    /\ TELEGRAM_CHAT_ID \in Secrets
    /\ STORAGE_STATE_B64 = ""
    /\ session = "login"
    /\ InitRun

HelperNext ==
    \/ \E resp \in Responses : CallSendTelegram(resp)
    \/ \E u \in Urls, n \in PageNums : CallPaginateUrl(u, n)
    \/ \E h \in Hrefs, u \in PageUrls : CallNormalizeHref(h, u)

HelperSpec == HelperInit /\ [][HelperNext]_vars

\* ------------------------------------------------------------ properties
\* A send_telegram call for posting id was made in this step, with result ok.
SendIssued(id, ok) == tgLog' = Append(tgLog, [id |-> id, ok |-> ok])

\* C1: a ledger row for a posting is written only in a step in which the
\* send for that posting returned success, so every posting in the ledger
\* has been delivered before.
C1_RecordOnlyAfterDelivery ==
    [][\A id \in JobIds :
          /\ (id \notin LedgerIds /\ id \in LedgerIds') => SendIssued(id, TRUE)
          /\ id \in LedgerIds' => okCount'[id] >= 1]_vars

\* A run in which one send failed and another succeeded: only the
\* delivered posting is in the ledger.
C1_Witness ==
    \E i, j \in 1..Len(tgLog) :
        /\ ~tgLog[i].ok /\ tgLog[i].id \notin LedgerIds
        /\ tgLog[j].ok /\ tgLog[j].id \in LedgerIds

\* C2: no send is issued for a posting that is in the ledger at that
\* moment, and no posting is delivered twice.
C2_NoDuplicateNotification ==
    [][\A id \in JobIds :
          /\ (SendIssued(id, TRUE) \/ SendIssued(id, FALSE)) => id \notin LedgerIds
          /\ okCount'[id] <= 1]_vars

\* The inner loop has passed, without a send, a listed posting that is in
\* the ledger from an earlier page or run and is now listed without a text
\* of its own, next to a posting that is not in the ledger.
C2_Witness ==
    /\ pc = "notify"
    /\ \E i \in 1..(idx - 1) :
          LET job == Reversed(jobs)[i]
          IN  /\ job.id \in LedgerIds
              /\ okCount[job.id] = 1
              /\ job.title = "Seekube job"
              /\ \A k \in 1..Len(tgLog) : tgLog[k].id # job.id
    /\ \E id \in JobIds : id \notin LedgerIds
\* Posting id is among the postings extracted from the page being handled.
Listed(id) == pc = "notify" /\ \E i \in 1..Len(jobs) : jobs[i].id = id

\* C3: a failed send writes no ledger row for the posting; each time the
\* inner loop reaches a listed posting that is not in the ledger it sends
\* it again; and a posting that keeps being listed on visited pages, with
\* a Notifier that does not fail for it for ever, is eventually recorded.
C3_RetriedUntilDelivered ==
    /\ [][\A id \in JobIds :
            /\ SendIssued(id, FALSE) => id \notin LedgerIds'
            /\ (pc = "notify" /\ idx <= Len(jobs) /\ Reversed(jobs)[idx].id = id
                  /\ id \notin LedgerIds)
                  => (SendIssued(id, TRUE) \/ SendIssued(id, FALSE))]_vars
    /\ ([]<>Listed(Target)) => <>(Target \in LedgerIds)

\* The first page of a run delivered a posting whose send had failed in an
\* earlier run.
C3_Witness ==
    /\ failedBefore
    /\ navs = 1
    /\ tgLog = <<[id |-> Target, ok |-> TRUE]>>
    /\ Target \in LedgerIds
\* C4: page n+1 is navigated only if page n yielded at least one posting,
\* and a page that yields no posting is the last page of its run.
C4_StopsAtEmptyPage ==
    [][/\ (navs >= 1 /\ navs' = navs + 1) => (Len(jobs) >= 1 /\ pnum = navs + 1)
       /\ (pc = "notify" /\ Len(jobs) = 0) => pc' = "finally"
       /\ (pc = "finally" /\ navs >= 1) => navs' = navs]_vars

\* A run whose first page yielded nothing is over after one navigation
\* although MAX_PAGES allowed a second.
C4_Witness ==
    /\ MAX_PAGES = 2
    /\ navs = 1
    /\ diag = "scrape"
    /\ jobs = <<>>
    /\ exc = "none"
    /\ pc = "finally"

\* The last page of the run yielded postings, was not taken for a login
\* page and no navigation failed.
RanToCap ==
    /\ pc = "finally"
    /\ exc = "none"
    /\ diag = "scrape"
    /\ Len(jobs) >= 1

RunEnded == pc \in {"sleep", "exited", "crashed"}

\* C5 as stated: a run makes at most MAX_PAGES navigations, for every
\* configured MAX_PAGES.
C5_AtMostMaxPages == browser_open => navs <= MAX_PAGES

\* C5 amended: a run makes at most max(MAX_PAGES, 0) navigations, exactly
\* that many when every page yields postings, and every run ends.
C5_PageCap ==
    /\ [](navs <= Max0(MAX_PAGES))
    /\ [](RanToCap => navs = Max0(MAX_PAGES))
    /\ (pc = "check_once") ~> RunEnded

\* A run stopped by the cap alone, after exactly MAX_PAGES = 2 pages.
C5_Witness == RanToCap /\ MAX_PAGES = 2 /\ navs = 2

\* The final URL or the first TEXT_LIMIT characters of the content hold a
\* login or challenge marker.
MatchesHeuristic(pg) ==
    pg.url_marker \/ (pg.marker_end >= 1 /\ pg.marker_end <= TEXT_LIMIT)

\* C6: loading a page that matches the login heuristic sends nothing,
\* writes no ledger row, extracts nothing and ends the for loop without an
\* exception; the run then completes as an exhausted run does, with no
\* further navigation.
C6_AuthBlockEndsRun ==
    [][/\ (navs' = navs + 1 /\ exc' = "none" /\ MatchesHeuristic(loaded')) =>
                /\ ledger' = ledger
                /\ tgLog' = <<>>
                /\ jobs' = jobs
                /\ history' = history
                /\ exc' = "none"
                /\ diag' = "login"
                /\ pc' = "finally"
       /\ (pc = "finally" /\ exc = "none" /\ MatchesHeuristic(loaded)) =>
                /\ navs' = navs
                /\ ledger' = ledger
                /\ history' = history
                /\ diag' = "done"
                /\ pc' = (IF RUN_FOREVER THEN "sleep" ELSE "exited")]_vars

\* A run ended normally after its first page, which listed two job anchors,
\* was taken for a login page; nothing was recorded.
C6_Witness ==
    /\ loaded = [url_marker |-> FALSE, marker_end |-> TEXT_LIMIT]
    /\ skipped = 2
    /\ navs = 1
    /\ diag = "done"
    /\ pc = "exited"
    /\ ledger = {}
    /\ tgLog = <<>>

\* Position of posting id in the extracted list.
PosInJobs(id) == CHOOSE i \in 1..Len(jobs) : jobs[i].id = id

\* C7: the sends made for a page are for postings of that page, in the
\* reverse of the order in which the Extractor returned them.
C7_ReverseOrder ==
    /\ \A k \in 1..Len(tgLog) : \E i \in 1..Len(jobs) : jobs[i].id = tgLog[k].id
    /\ \A k1, k2 \in 1..Len(tgLog) :
          k1 < k2 => PosInJobs(tgLog[k1].id) > PosInJobs(tgLog[k2].id)

\* Empty ledger, page 1 yields A then B: B was sent and recorded, then A,
\* and the run is about to go on to page 2.
C7_Witness ==
    LET A == [host |-> "app.seekube.com", n |-> 1]
        B == [host |-> "app.seekube.com", n |-> 2]
    IN  /\ navs = 1
        /\ Len(jobs) = 2 /\ jobs[1].id = A /\ jobs[2].id = B
        /\ tgLog = <<[id |-> B, ok |-> TRUE], [id |-> A, ok |-> TRUE]>>
        /\ LedgerIds = {A, B}
        /\ pc = "notify" /\ idx = 3 /\ MAX_PAGES = 2
RowsOf(conn, id) == {r \in conn : r.id = id}

\* C8: a mark_seen call never changes or removes an existing row and never
\* leaves two rows for one id: the second call for an id is a no-op and the
\* row keeps the first timestamp.
C8_IdempotentRecord ==
    [][/\ \A r \in ledger : r \in ledger'
       /\ \A id \in JobIds :
            /\ Cardinality(RowsOf(ledger', id)) <= 1
            /\ markCalls'[id] >= 1 => Cardinality(RowsOf(ledger', id)) = 1
            /\ (id \in LedgerIds /\ markCalls'[id] # markCalls[id]) => ledger' = ledger]_vars

\* mark_seen was called twice for an id, the second time at a later instant
\* than the one its only row carries, with another row in the table.
C8_Witness ==
    \E r \in ledger :
        /\ markCalls[r.id] = 2
        /\ r.first_seen_utc = 0
        /\ clock = 1
        /\ RowsOf(ledger, r.id) = {r}
        /\ Cardinality(ledger) = 2

\* C9: in continuous mode the process never ends: a cycle that raised is
\* caught, every cycle is followed by the sleep, and the sleep by the next
\* run.
C9_LoopSurvivesFailures ==
    /\ [](RUN_FOREVER => pc \notin {"exited", "crashed"})
    /\ [][(RUN_FOREVER /\ pc = "finally") => (pc' = "sleep" /\ exc' = "none")]_vars
    /\ (RUN_FOREVER /\ pc = "finally") ~> (pc = "check_once")

\* check_once is called again after a cycle that ended with an exception.
C9_Witness ==
    /\ RUN_FOREVER
    /\ diag = "loop_error"
    /\ pc = "check_once"
    /\ exc = "none"
    /\ navs = 1

\* C10 as stated: a navigation timeout abandons only the current page; no
\* exception leaves check_once and the process is not terminated by it.
C10_TimeoutIsPageLevel ==
    [][navs' = navs + 1 => (exc' = "none" /\ pc' # "crashed")]_vars

\* The browser executable Brave was asked for is missing or does not launch.
BadExecutable == make_browser(FALSE).raised # "none"

\* C11 as stated: with a missing or invalid browser executable the process
\* aborts before any navigation, in every mode: it is never in the poll
\* loop's sleep and never starts a second cycle.
C11_BadExecutableIsFatal ==
    BadExecutable => (pc \in {"boot", "check_once", "crashed"} /\ navs = 0 /\ diag = "none")

Configured == TELEGRAM_BOT_TOKEN # "" /\ TELEGRAM_CHAT_ID # ""

\* C12: send_telegram never raises; it returns True exactly when it is
\* configured and requests.post answers 200, and False on an exception of
\* requests.post, on any other status and without configuration; without
\* configuration it does not call requests.post.
C12_SendReturnsBool ==
    probe.fn = "send_telegram" =>
        /\ ~probe.out.raised
        /\ probe.out.ret = (Configured /\ probe.resp = "200")
        /\ probe.out.posted = Configured

\* A call without a bot token, where requests.post would have answered
\* 200: False, and no outbound call.
C12_Witness ==
    /\ probe.fn = "send_telegram"
    /\ TELEGRAM_BOT_TOKEN = "" /\ TELEGRAM_CHAT_ID = "set"
    /\ probe.resp = "200"
    /\ probe.out = [ret |-> FALSE, raised |-> FALSE, posted |-> FALSE]

\* A process is being started: __main__ runs from its first line.
Starting == pc \in {"boot", "exited", "crashed"}

\* C13: the start of a process leaves an existing session file as it is
\* whatever the seed; it writes the file only when the file is absent and
\* the seed decodes, and then from the seed; a seed that does not decode
\* changes nothing and the unattended start goes on to check_once.
C13_SeedNeverOverwrites ==
    [][Starting =>
          /\ session # "absent" => session' = session
          /\ session' # session =>
                (session = "absent" /\ STORAGE_STATE_B64 = "valid" /\ session' = "seed")
          /\ (session = "absent" /\ STORAGE_STATE_B64 = "valid") =>
                (session' = "seed" \/ UNCHANGED vars)
          /\ (STORAGE_STATE_B64 = "invalid" /\ pc' \notin {"login_wait", "crashed"}) =>
                (session' = session /\ pc' \in {pc, "check_once"} /\ exc' = "none")
          /\ (STORAGE_STATE_B64 = "invalid" /\ pc' = "crashed" /\ ~UNCHANGED vars) =>
                exc' \in {"RuntimeError", "Error", "TimeoutError"}]_vars

\* An unattended process has started with a seed that decodes and a
\* session file that was there before: the file is still the old one.
C13_Witness ==
    /\ STORAGE_STATE_B64 = "valid"
    /\ session = "old"
    /\ pc = "check_once"
    /\ exc = "none"

\* C14: an existing session file changes only in the step in which
\* input() returns in login mode, and becomes the saved login state; while
\* the process waits for the line the headed browser is open; the process
\* then exits 0 with the browser closed; no step of login mode navigates
\* for a crawl, sends, or writes the ledger; no step of an unattended run
\* writes the session file.
C14_SessionReplacedOnlyByLogin ==
    /\ [][/\ (session # "absent" /\ session' # session) =>
               (pc = "login_wait" /\ session' = "login")
          /\ (pc = "login_wait" /\ pc' = "exited") =>
               (session' = "login" /\ ~browser_open' /\ exc' = "none")
          /\ (pc = "login_wait" /\ pc' # "exited") => session' = session
          /\ ((Starting /\ pc' # "check_once") \/ pc = "login_wait") =>
               /\ ledger' = ledger /\ tgLog' = tgLog /\ navs' = navs
               /\ history' = history
               /\ pc' \in {"boot", "login_wait", "exited", "crashed"}
          /\ pc \in {"check_once", "goto", "notify", "finally", "sleep"} =>
               session' = session]_vars
    /\ [](pc = "login_wait" => (browser_open /\ ~headless))

\* A login saved the session state and the process exited 0; no crawl has
\* run.
C14_Witness ==
    /\ session = "login"
    /\ pc = "exited"
    /\ exc = "none"
    /\ ~browser_open /\ ~headless
    /\ STORAGE_STATE_B64 = ""
    /\ ledger = {} /\ navs = 0 /\ diag = "none"

\* URL u with its page-number parameter set to n: the value of every
\* parameter named page replaced, or a parameter page=n added at the end of
\* the query, and nothing else changed.
SetPage(u, n) ==
    LET pg == [key |-> "page", val |-> ToString(n)]
    IN  IF \E i \in 1..Len(u.query) : u.query[i].key = "page"
        THEN [u EXCEPT !.query =
                 [i \in 1..Len(u.query) |-> IF u.query[i].key = "page" THEN pg ELSE u.query[i]]]
        ELSE [u EXCEPT !.query = Append(u.query, pg)]

\* C15 as stated: for every URL and page number, paginate_url returns the
\* URL with its page-number parameter set to that number and the rest
\* unchanged, and another page number gives another URL.
C15_PageParamSet ==
    probe.fn = "paginate_url" =>
        /\ probe.out = Render(SetPage(probe.url, probe.n))
        /\ \A m \in PageNums \ {probe.n} : paginate_url(Render(probe.url), m) # probe.out

\* The absolute URL of posting n on the site the page was loaded from.
AbsoluteJobUrl(u, n) == <<u.scheme, "/", "/", u.host, "/", "jobdating/jobs/", ToString(n)>>

\* C16 as stated: every relative job link gets as its id the absolute URL
\* made of the scheme and host of the loaded page and the path of the
\* posting, which is also the id of the absolute link to that posting.
C16_RelativeLinksResolved ==
    (probe.fn = "normalize_href" /\ probe.href.kind # "absolute") =>
        /\ probe.out = AbsoluteJobUrl(probe.page, probe.href.n)
        /\ probe.out = NormalizeHref(AbsoluteJobUrl(probe.page, probe.href.n),
                                     RenderPageUrl(probe.page))

\* A send made for the page being handled returned False.
FailedOnPage == \E k \in 1..Len(tgLog) : ~tgLog[k].ok

\* C17: a send that returns False raises nothing and leaves the inner loop
\* where it is; after it every further posting of the page that is not in
\* the ledger is sent; the page then ends as any page does (next page
\* while the page yielded postings and the cap allows, else the end of the
\* run, without an exception); and a one-shot run that ends without an
\* exception exits 0.
C17_FailedSendDoesNotAbort ==
    [][/\ \A id \in JobIds : SendIssued(id, FALSE) =>
              (pc' = "notify" /\ idx' = idx + 1 /\ jobs' = jobs /\ exc' = "none")
       /\ (FailedOnPage /\ pc = "notify" /\ idx <= Len(jobs)) =>
              /\ pc' = "notify" /\ idx' = idx + 1 /\ exc' = "none"
              /\ Reversed(jobs)[idx].id \notin LedgerIds =>
                    \E ok \in BOOLEAN : SendIssued(Reversed(jobs)[idx].id, ok)
       /\ (FailedOnPage /\ pc = "notify" /\ idx > Len(jobs)) =>
              /\ exc' = "none"
              /\ pc' = (IF pnum < MAX_PAGES THEN "goto" ELSE "finally")
              /\ pnum' = (IF pnum < MAX_PAGES THEN pnum + 1 ELSE pnum)
       /\ (exc' # "none" /\ exc = "none") => (navs' = navs + 1 \/ pc = "check_once")
       /\ (~RUN_FOREVER /\ pc = "finally" /\ exc = "none") =>
              (pc' = "exited" /\ exc' = "none")]_vars

\* A one-shot run of two pages has exited 0; of the two postings of its
\* last page, the one sent first is not in the ledger (its send failed)
\* and the one after it is.
C17_Witness ==
    /\ ~RUN_FOREVER /\ pc = "exited" /\ exc = "none"
    /\ MAX_PAGES = 2 /\ navs = 2
    /\ Len(jobs) = 2
    /\ jobs[2].id \notin LedgerIds
    /\ jobs[1].id \in LedgerIds

\* C18: with two instances on one ledger a posting can be delivered twice,
\* but only by two different instances, the second of which had found the
\* posting unseen before the first recorded it; one instance on its own
\* never delivers a posting twice.
C18_DuplicateNeedsTwoInstances ==
    /\ [][\A p \in Instances, id \in JobIds :
             (id \in inst'[p].done /\ id \notin inst[p].done) =>
                 /\ inst[p].at = "checked" /\ inst[p].id = id
                 /\ okCount[id] = 1 =>
                       \E q \in Instances \ {p} : id \in inst[q].done
                 /\ \A q \in Instances : id \in inst[q].done => q # p]_vars
    /\ [](\A id \in JobIds :
             okCount[id] = Cardinality({p \in Instances : id \in inst[p].done}))

\* Both instances have delivered the same posting, and it has one row.
C18_Witness ==
    /\ okCount[Target] = 2
    /\ \A p \in Instances : Target \in inst[p].done /\ inst[p].at = "idle"
    /\ Cardinality(RowsOf(ledger, Target)) = 1
    /\ markCalls[Target] = 2

\* The process is inside the try block of check_once or in its finally.
InRun == pc \in {"goto", "notify", "finally"}

\* C19: a browser is open only between the start of a run and its finally
\* block; a run opens one only when none is open; and every step that
\* leaves the run, with or without an exception, leaves the browser
\* closed, so none is open during the sleep, at the next check_once or
\* after the process ended.
C19_BrowserClosedAfterRun ==
    /\ [](browser_open => InRun)
    /\ [][/\ (browser_open' /\ ~browser_open) => (pc = "check_once" /\ pc' \in {"goto", "finally"})
          /\ (InRun /\ ~InRun') => (pc = "finally" /\ browser_open /\ ~browser_open')
          /\ (InRun /\ exc' # "none") => (pc' \in {"finally", "crashed"})]_vars

\* A one-shot run ended with the exception its second navigation raised;
\* the browser is closed.
C19_Witness ==
    /\ pc = "crashed"
    /\ exc = "TimeoutError"
    /\ navs = 2
    /\ ~browser_open

\* C20: no step removes or changes a ledger row: not the step that raises,
\* not the finally block, not the except of the poll loop, not the start
\* of a new process; the steps of an abort write nothing; and a posting
\* that is in the ledger is not sent again in any later run, while one
\* that is not is sent when the inner loop reaches it.
C20_AbortKeepsProgress ==
    [][/\ \A r \in ledger : r \in ledger'
       /\ (exc' # "none" \/ exc # "none" \/ pc \in {"finally", "sleep", "crashed"}) =>
              (ledger' = ledger /\ okCount' = okCount)
       /\ (pc = "notify" /\ idx <= Len(jobs)) =>
              LET id == Reversed(jobs)[idx].id
              IN  IF \E r \in ledger : r.id = id
                  THEN tgLog' = tgLog /\ ledger' = ledger
                  ELSE Len(tgLog') = Len(tgLog) + 1 /\ tgLog'[Len(tgLog')].id = id]_vars

\* The second navigation of a cycle raised and the loop caught it: of the
\* two postings of page 1, the one recorded is still in the ledger, the
\* other is not.
C20_Witness ==
    /\ RUN_FOREVER /\ pc = "sleep" /\ diag = "loop_error"
    /\ navs = 2
    /\ Len(jobs) = 2
    /\ jobs[1].id \in LedgerIds
    /\ jobs[2].id \notin LedgerIds
====
